---------------------------- MODULE Spec2Model ----------------------------
(***************************************************************************)
(* The locallibrary catalog: the entities declared in                      *)
(* locallibrary/catalog/models.py (Genre, Book, BookInstance, Author) and  *)
(* the add / change / delete operations that catalog/admin.py registers    *)
(* for them.  A table is a function from primary keys to rows, except the  *)
(* BookInstance table, whose primary key is a client-visible UUID field    *)
(* and which is kept as a set of rows so that uniqueness of the key is a   *)
(* property of the operations and not of the representation.  Text is a    *)
(* sequence of characters.                                                 *)
(***************************************************************************)
EXTENDS Integers, Sequences, FiniteSets, TLC

VARIABLES authors, genres, books, instances,
          nextAuthor, nextGenre, nextBook, last

vars == <<authors, genres, books, instances,
          nextAuthor, nextGenre, nextBook, last>>

(* ------------------------------ bounds -------------------------------- *)
MaxAuthors == 2
MaxGenres == 2
MaxBooks == 2
MaxInstances == 2
NumGenres == 4

(* --------------------------- field values ----------------------------- *)
\* null=True: the value of a foreign key that references nothing.
NULL == 0

\* due_back = None (null=True, blank=True).
None == "None"

DueDates == {None, "2020-01-01"}

\* LOAN_STATUS: the stored values of the four choices.
LOAN_STATUS == {"m", "o", "a", "r"}

\* status is declared blank=True: the form also accepts the empty value.
StatusFormValues == LOAN_STATUS \cup {""}

\* default='m'
StatusDefault == "m"

\* A form submission that carries no status field at all.
UNSET == "unset"

\* What a client may submit as status: the values of the form, no value, and
\* a value that is none of the choices.
StatusInputs == StatusFormValues \cup {UNSET, "x"}

Titles == {<<"T">>, <<"U">>}

\* Genre.name is free text of up to 200 characters: it may hold ", ".
GenreNames == {<<"a">>, <<"d">>, <<"b", ",", " ", "c">>}

AuthorNames == {[last_name |-> <<"S">>, first_name |-> <<"J">>]}

Imprints == {<<"I">>}

\* uuid.uuid4 draws from a pool; so does a client that types an id.
UUIDs == 1 .. MaxInstances

Separator == <<",", " ">>

AttributeError == <<"AttributeError">>

(* ------------------------------ helpers ------------------------------- *)
Drop(f, k) == [x \in DOMAIN f \ {k} |-> f[x]]

Put(f, k, v) == [x \in DOMAIN f \cup {k} |-> IF x = k THEN v ELSE f[x]]

Min(a, b) == IF a < b THEN a ELSE b

\* The orders in which a query without ORDER BY may return the rows S.
Orders(S) ==
  {q \in [1 .. Cardinality(S) -> S] : \A i, j \in DOMAIN q : q[i] = q[j] => i = j}

\* A query that is not sliced.
SliceAll(q, n) == q

\* queryset[:n]
Slice(q, n) == SubSeq(q, 1, Min(n, Len(q)))

\* sep.join(parts)
RECURSIVE Join(_, _)
Join(parts, sep) ==
  IF Len(parts) = 0 THEN <<>>
  ELSE IF Len(parts) = 1 THEN parts[1]
  ELSE parts[1] \o sep \o Join(Tail(parts), sep)

StartsWith(text, sep) ==
  /\ Len(text) >= Len(sep)
  /\ SubSeq(text, 1, Len(sep)) = sep

Contains(text, sep) ==
  \E i \in 1 .. Len(text) : StartsWith(SubSeq(text, i, Len(text)), sep)

\* text.split(sep), scanning left to right; cur is the part being read.
RECURSIVE SplitFrom(_, _, _)
SplitFrom(text, sep, cur) ==
  IF Len(text) = 0 THEN <<cur>>
  ELSE IF StartsWith(text, sep)
       THEN <<cur>> \o SplitFrom(SubSeq(text, Len(sep) + 1, Len(text)), sep, <<>>)
       ELSE SplitFrom(Tail(text), sep, Append(cur, Head(text)))

Split(text, sep) == SplitFrom(text, sep, <<>>)

(* ----------------------------- the schema ----------------------------- *)
\* The slice bound of display_genre.
GenreLimit == 3

\* on_delete=DO_NOTHING in place of SET_NULL.
BookAuthorDoNothing(a) == books

\* on_delete=CASCADE in place of SET_NULL.
BookAuthorCascade(a) ==
  [b \in {x \in DOMAIN books : books[x].author # a} |-> books[b]]

\* Book.author = ForeignKey('Author', on_delete=SET_NULL, null=True): the
\* Book table after Author a is deleted.
BookAuthorOnDelete(a) ==
  [b \in DOMAIN books |->
     IF books[b].author = a THEN [books[b] EXCEPT !.author = NULL] ELSE books[b]]

\* on_delete=CASCADE in place of SET_NULL.
InstanceBookCascade(b) == {r \in instances : r.book # b}

\* A SET_NULL that is not restricted to the rows of the deleted Book.
InstanceBookNullAll(b) == {[r EXCEPT !.book = NULL] : r \in instances}

\* BookInstance.book = ForeignKey('Book', on_delete=SET_NULL, null=True): the
\* BookInstance table after Book b is deleted.
InstanceBookOnDelete(b) ==
  {IF r.book = b THEN [r EXCEPT !.book = NULL] ELSE r : r \in instances}

\* A Genre delete that leaves the rows of the relation behind.
BookGenreKeep(g) == books

\* Book.genre = ManyToManyField(Genre): the rows of the relation that name a
\* deleted Genre go with it; the Book table after Genre g is deleted.
BookGenreOnDelete(g) ==
  [b \in DOMAIN books |-> [books[b] EXCEPT !.genre = @ \ {g}]]

\* BookInstance.id is the primary key: an add form whose id is already the
\* key of a row is rejected.
PrimaryKeyFree(id) == \A r \in instances : r.id # id

\* A form without the choices.
StatusAny(status) == TRUE

\* status = CharField(choices=LOAN_STATUS, blank=True, default='m'): the
\* values the form accepts.
StatusValid(status) == status \in StatusFormValues

\* A field without default='m'.
StatusStoredBlank(status) == IF status = UNSET THEN "" ELSE status

\* The stored status: the default when the field is absent from the form.
StatusStored(status) == IF status = UNSET THEN StatusDefault ELSE status

\* Book.author and BookInstance.book are null=True but not blank=True, and
\* Book.genre is not blank=True: the forms require a value.
AuthorValid(a) == a \in DOMAIN authors

BookValid(b) == b \in DOMAIN books

GenreSetValid(gs) == gs # {} /\ gs \subseteq DOMAIN genres

\* str(uuid), str(date), str(None)
UUIDText(u) == <<<<"1">>, <<"2">>, <<"3">>, <<"4">>, <<"5">>>>[u]

DateText(d) == <<d>>

\* Book.display_genre, for one order q of self.genre.all().
display_genre(q) ==
  LET first == Slice(q, GenreLimit)
  IN  Join([i \in 1 .. Len(first) |-> genres[first[i]]], Separator)

\* BookInstance.__str__
BookInstanceStr(r) ==
  IF r.book = NULL THEN AttributeError
  ELSE UUIDText(r.id) \o <<" ", "(">> \o books[r.book].title \o <<")", " ">>
       \o (IF r.status = "" THEN <<>> ELSE <<r.status>>) \o <<" ">>
       \o DateText(r.due_back)

(* ------------------------------- state -------------------------------- *)
\* last: the most recent operation, when it was the add of a BookInstance
\* (with the id and the status field submitted) or the display of a Book's
\* genres (with the Book and the text returned); Other after anything else.
Op(name, id, status, text) ==
  [op |-> name, id |-> id, status |-> status, text |-> text]

Other == Op("other", NULL, "", <<>>)

Init ==
  /\ authors = <<>>
  /\ genres \in [{1} -> {<<"a">>}]
  /\ books = <<>>
  /\ instances = {}
  /\ nextAuthor = 1
  /\ nextGenre = 2
  /\ nextBook = 1
  /\ last = Other

(* ----------------------------- operations ----------------------------- *)
CreateAuthor(n) ==
  /\ nextAuthor <= MaxAuthors
  /\ authors' = Put(authors, nextAuthor, n)
  /\ nextAuthor' = nextAuthor + 1
  /\ last' = Other
  /\ UNCHANGED <<genres, books, instances, nextGenre, nextBook>>

DeleteAuthor(a) ==
  /\ a \in DOMAIN authors
  /\ authors' = Drop(authors, a)
  /\ books' = BookAuthorOnDelete(a)
  /\ last' = Other
  /\ UNCHANGED <<genres, instances, nextAuthor, nextGenre, nextBook>>

CreateGenre(n) ==
  /\ nextGenre <= MaxGenres
  /\ genres' = Put(genres, nextGenre, n)
  /\ nextGenre' = nextGenre + 1
  /\ last' = Other
  /\ UNCHANGED <<authors, books, instances, nextAuthor, nextBook>>

DeleteGenre(g) ==
  /\ g \in DOMAIN genres
  /\ genres' = Drop(genres, g)
  /\ books' = BookGenreOnDelete(g)
  /\ last' = Other
  /\ UNCHANGED <<authors, instances, nextAuthor, nextGenre, nextBook>>

CreateBook(t, a, gs) ==
  /\ nextBook <= MaxBooks
  /\ AuthorValid(a)
  /\ GenreSetValid(gs)
  /\ books' = Put(books, nextBook, [title |-> t, author |-> a, genre |-> gs])
  /\ nextBook' = nextBook + 1
  /\ last' = Other
  /\ UNCHANGED <<authors, genres, instances, nextAuthor, nextGenre>>

EditBook(b, t, a, gs) ==
  /\ b \in DOMAIN books
  /\ AuthorValid(a)
  /\ GenreSetValid(gs)
  /\ books' = [books EXCEPT ![b] = [title |-> t, author |-> a, genre |-> gs]]
  /\ last' = Other
  /\ UNCHANGED <<authors, genres, instances, nextAuthor, nextGenre, nextBook>>

DeleteBook(b) ==
  /\ b \in DOMAIN books
  /\ books' = Drop(books, b)
  /\ instances' = InstanceBookOnDelete(b)
  /\ last' = Other
  /\ UNCHANGED <<authors, genres, nextAuthor, nextGenre, nextBook>>

\* A save that always INSERTs, into a table without the primary key.
SaveInsert(row) == instances \cup {row}

\* Model.save of a row: UPDATE the row with that primary key, else INSERT.
Save(row) == {x \in instances : x.id # row.id} \cup {row}

\* The add form.  The id is a field of the form (uuid4 when left alone).
CreateInstance(id, b, imp, st, due) ==
  /\ PrimaryKeyFree(id)
  /\ BookValid(b)
  /\ st = UNSET \/ StatusValid(st)
  /\ instances' = Save([id |-> id, book |-> b, imprint |-> imp,
                        due_back |-> due, status |-> StatusStored(st)])
  /\ last' = Op("CreateInstance", id, st, <<>>)
  /\ UNCHANGED <<authors, genres, books, nextAuthor, nextGenre, nextBook>>

\* The change form of row r.  The id is a field of the form: the row is
\* saved under the id submitted, and a status absent from the form leaves
\* the row's status as it is.
EditInstance(r, id, b, imp, st, due) ==
  /\ r \in instances
  /\ BookValid(b)
  /\ st = UNSET \/ StatusValid(st)
  /\ instances' = Save([id |-> id, book |-> b, imprint |-> imp,
                        due_back |-> due,
                        status |-> IF st = UNSET THEN r.status ELSE st])
  /\ last' = Other
  /\ UNCHANGED <<authors, genres, books, nextAuthor, nextGenre, nextBook>>

DeleteInstance(r) ==
  /\ r \in instances
  /\ instances' = instances \ {r}
  /\ last' = Other
  /\ UNCHANGED <<authors, genres, books, nextAuthor, nextGenre, nextBook>>

\* The Book list of the admin console evaluates display_genre for a row; the
\* query has no ORDER BY, so the rows come in an order of the database's.
DisplayGenre(b) ==
  /\ b \in DOMAIN books
  /\ \E q \in Orders(books[b].genre) :
       last' = Op("DisplayGenre", b, "", display_genre(q))
  /\ UNCHANGED <<authors, genres, books, instances, nextAuthor, nextGenre, nextBook>>

(* ------------- Authors, Books and BookInstances (one Genre) ------------- *)
Next ==
  \/ \E n \in AuthorNames : CreateAuthor(n)
  \/ \E a \in DOMAIN authors : DeleteAuthor(a)
  \/ \E t \in Titles, a \in DOMAIN authors, gs \in SUBSET DOMAIN genres :
       CreateBook(t, a, gs)
  \/ \E b \in DOMAIN books, t \in Titles, a \in DOMAIN authors,
        gs \in SUBSET DOMAIN genres : EditBook(b, t, a, gs)
  \/ \E b \in DOMAIN books : DeleteBook(b)
  \/ \E id \in UUIDs, b \in DOMAIN books, imp \in Imprints :
       CreateInstance(id, b, imp, UNSET, None)
  \/ \E r \in instances : DeleteInstance(r)

Spec == Init /\ [][Next]_vars

(* ------------------ Genres and Books (one Author) ---------------------- *)
InitGenre ==
  /\ authors \in [{1} -> AuthorNames]
  /\ genres = <<>>
  /\ books = <<>>
  /\ instances = {}
  /\ nextAuthor = 2
  /\ nextGenre = 1
  /\ nextBook = 1
  /\ last = Other

NextGenre ==
  \/ \E n \in GenreNames : CreateGenre(n)
  \/ \E g \in DOMAIN genres : DeleteGenre(g)
  \/ \E t \in Titles, a \in DOMAIN authors, gs \in SUBSET DOMAIN genres :
       CreateBook(t, a, gs)
  \/ \E b \in DOMAIN books, t \in Titles, a \in DOMAIN authors,
        gs \in SUBSET DOMAIN genres : EditBook(b, t, a, gs)
  \/ \E b \in DOMAIN books : DeleteBook(b)

SpecGenre == InitGenre /\ [][NextGenre]_vars

(* ------ display_genre on one Book of a catalog of NumGenres Genres ------ *)
InitDisplay ==
  /\ authors \in [{1} -> AuthorNames]
  /\ genres \in [1 .. NumGenres -> GenreNames]
  /\ books \in [{1} -> [title : Titles, author : {1},
                        genre : SUBSET (1 .. NumGenres) \ {{}}]]
  /\ instances = {}
  /\ nextAuthor = 2
  /\ nextGenre = NumGenres + 1
  /\ nextBook = 2
  /\ last = Other

NextDisplay ==
  \/ \E b \in DOMAIN books : DisplayGenre(b)
  \/ \E g \in DOMAIN genres : DeleteGenre(g)

SpecDisplay == InitDisplay /\ [][NextDisplay]_vars

(* ------------ the BookInstances of the two Books of a catalog ----------- *)
InitInstance ==
  /\ authors \in [{1} -> AuthorNames]
  /\ genres \in [{1} -> {<<"a">>}]
  /\ books = <<[title |-> <<"T">>, author |-> 1, genre |-> {1}],
               [title |-> <<"U">>, author |-> 1, genre |-> {1}]>>
  /\ instances = {}
  /\ nextAuthor = 2
  /\ nextGenre = 2
  /\ nextBook = Len(books) + 1
  /\ last = Other

NextInstance ==
  \/ \E id \in UUIDs, b \in DOMAIN books, imp \in Imprints,
        st \in StatusInputs, due \in DueDates :
       CreateInstance(id, b, imp, st, due)
  \/ \E r \in instances, id \in UUIDs, b \in DOMAIN books, imp \in Imprints,
        st \in StatusInputs, due \in DueDates :
       EditInstance(r, id, b, imp, st, due)
  \/ \E r \in instances : DeleteInstance(r)
  \/ \E b \in DOMAIN books : DeleteBook(b)

SpecInstance == InitInstance /\ [][NextInstance]_vars

(* ------------------------------ properties ---------------------------- *)
\* C1: after any sequence of creates and deletes of Authors, Books and
\* BookInstances, every Book's author is null or an Author that exists, and
\* every BookInstance's book is null or a Book that exists.
NoDanglingReference ==
  /\ \A b \in DOMAIN books : books[b].author \in {NULL} \cup DOMAIN authors
  /\ \A r \in instances : r.book \in {NULL} \cup DOMAIN books

\* C1 witness: a Book orphaned by an Author delete while another Author
\* exists, and a BookInstance orphaned by a Book delete beside one of a Book
\* that exists.
OrphansAndLiveReferences ==
  /\ \E b \in DOMAIN books : books[b].author = NULL
  /\ DOMAIN authors # {}
  /\ \E r \in instances : r.book = NULL
  /\ \E r \in instances : r.book \in DOMAIN books

\* C2: a step that deletes Author a deletes no Book, and every Book that
\* referenced a is still there afterwards with a null author.
AuthorDeleteKeepsBooks ==
  [][\A a \in DOMAIN authors :
       a \notin DOMAIN authors' =>
         /\ DOMAIN books \subseteq DOMAIN books'
         /\ \A b \in DOMAIN books :
              books[b].author = a => books'[b].author = NULL]_vars

\* C2 witness: two Books orphaned by Author deletes (a Book gets a null
\* author in no other way).
TwoBooksOrphaned ==
  \E b1, b2 \in DOMAIN books :
    b1 # b2 /\ books[b1].author = NULL /\ books[b2].author = NULL

\* C3: a step that deletes Book b deletes no BookInstance, and every
\* BookInstance that referenced b is still there afterwards with a null book.
BookDeleteKeepsInstances ==
  [][\A b \in DOMAIN books :
       b \notin DOMAIN books' =>
         /\ \A r \in instances : \E x \in instances' : x.id = r.id
         /\ \A r \in instances :
              r.book = b => \A x \in instances' : x.id = r.id => x.book = NULL]_vars

\* C3 witness: two BookInstances orphaned by Book deletes.
TwoInstancesOrphaned ==
  \E r1, r2 \in instances : r1 # r2 /\ r1.book = NULL /\ r2.book = NULL

\* A step that adds a BookInstance.
IsCreateStep == last'.op = "CreateInstance" /\ last' # last

\* C4: no two BookInstance rows have the same id, whatever their books; an
\* add makes one new row under an id no row had, and two adds in a row leave
\* two rows with different ids.
InstanceIdsUnique ==
  /\ [](\A r1, r2 \in instances : r1.id = r2.id => r1 = r2)
  /\ [][IsCreateStep =>
          /\ \A r \in instances : r.id # last'.id
          /\ \E x \in instances' : x.id = last'.id /\ instances' = instances \cup {x}
          /\ last.op = "CreateInstance" =>
               /\ last.id # last'.id
               /\ \E x, y \in instances' : x.id = last.id /\ y.id = last'.id]_vars

\* C4 witness: an add has just made a second row, beside a row whose book is
\* null.
SecondInstanceAdded ==
  /\ last.op = "CreateInstance"
  /\ \E r1, r2 \in instances :
       r1.id # r2.id /\ r1.book = NULL /\ r2.book # NULL /\ r2.id = last.id

\* C5 as stated: the status of every BookInstance is one of the four choices.
StatusIsAChoice == \A r \in instances : r.status \in {"m", "o", "a", "r"}

\* C5 as amended: the status of every BookInstance is one of the four
\* choices or the empty value, whatever the forms were sent.
StatusIsAChoiceOrBlank ==
  \A r \in instances : r.status \in {"m", "o", "a", "r", ""}

\* C5 witness: a row with the empty status beside a row with a choice.
BlankStatusStored ==
  \E r1, r2 \in instances : r1.status = "" /\ r2.status \in {"m", "o", "a", "r"}

\* C6: the display string of every BookInstance, also of one whose book is
\* null, is defined and reads '<id> (<book title>) <status> <due_back>'.
InstanceStrDefined ==
  \A r \in instances :
    /\ BookInstanceStr(r) # AttributeError
    /\ BookInstanceStr(r) =
         UUIDText(r.id) \o <<" ", "(">> \o books[r.book].title \o <<")", " ">>
         \o (IF r.status = "" THEN <<>> ELSE <<r.status>>) \o <<" ">>
         \o <<r.due_back>>

\* The genre set shown by the last display, and its names joined in order p.
ShownGenres == books[last.id].genre

JoinedNames(p) == Join([i \in DOMAIN p |-> genres[p[i]]], <<",", " ">>)

\* The text is the names of k different genres of the Book, joined.
ShowsDistinctGenres(k) ==
  \E p \in [1 .. k -> ShownGenres] :
    /\ \A i, j \in 1 .. k : p[i] = p[j] => i = j
    /\ last.text = JoinedNames(p)

\* The genres of S in the order of their ids.
ById(S) == CHOOSE q \in Orders(S) : \A i, j \in DOMAIN q : i < j => q[i] < q[j]

\* C7 as stated: display_genre gives the names of min(n, 3) different genres
\* of the Book joined by ', '; with 4 or more genres that is exactly 3
\* comma-separated names, those of the Book's first three genres.
DisplayGenreFirstThree ==
  last.op = "DisplayGenre" =>
    LET n == Cardinality(ShownGenres)
    IN  /\ ShowsDistinctGenres(IF n < 3 THEN n ELSE 3)
        /\ n = 0 => last.text = <<>>
        /\ n >= 4 =>
             /\ Len(Split(last.text, <<",", " ">>)) = 3
             /\ last.text = JoinedNames(SubSeq(ById(ShownGenres), 1, 3))

\* C7 as amended: display_genre gives the names of min(n, 3) different
\* genres of the Book joined by ', ', in the order the unordered query
\* returned them; with 4 or more genres, none of whose names holds ', ',
\* that is exactly 3 comma-separated names.
DisplayGenreSomeThree ==
  last.op = "DisplayGenre" =>
    LET n == Cardinality(ShownGenres)
    IN  /\ ShowsDistinctGenres(IF n < 3 THEN n ELSE 3)
        /\ n = 0 => last.text = <<>>
        /\ (n >= 4 /\ \A g \in ShownGenres : ~Contains(genres[g], <<",", " ">>)) =>
             Len(Split(last.text, <<",", " ">>)) = 3

\* C7 witness: a Book of 4 or more genres was displayed as three names that
\* are not those of its first three genres by id.
ThreeOfManyShown ==
  /\ last.op = "DisplayGenre"
  /\ Cardinality(ShownGenres) >= 4
  /\ \A g \in ShownGenres : ~Contains(genres[g], <<",", " ">>)
  /\ Len(Split(last.text, <<",", " ">>)) = 3
  /\ last.text # JoinedNames(SubSeq(ById(ShownGenres), 1, 3))

\* C8: a BookInstance added without a status has status 'm' right after the
\* add, whatever its book and due date.
DefaultStatusIsMaintenance ==
  (last.op = "CreateInstance" /\ last.status = UNSET) =>
    /\ \E r \in instances : r.id = last.id
    /\ \A r \in instances : r.id = last.id => r.status = "m"

\* C8 witness: a row just added without a status and with a due date.
AddedWithoutStatus ==
  /\ last.op = "CreateInstance"
  /\ last.status = UNSET
  /\ \E r \in instances : r.id = last.id /\ r.due_back # None /\ r.book # NULL

\* C9: a step that deletes an Author removes that row alone and changes only
\* the author of the Books that referenced it; a step that deletes a Book
\* removes that row alone and changes only the book of the BookInstances
\* that referenced it.
DeletesTouchNothingElse ==
  [][/\ \A a \in DOMAIN authors :
          a \notin DOMAIN authors' =>
            /\ authors' = [x \in DOMAIN authors \ {a} |-> authors[x]]
            /\ DOMAIN books' = DOMAIN books
            /\ \A b \in DOMAIN books :
                 books'[b] = IF books[b].author = a
                             THEN [books[b] EXCEPT !.author = NULL]
                             ELSE books[b]
            /\ instances' = instances
            /\ genres' = genres
     /\ \A b \in DOMAIN books :
          b \notin DOMAIN books' =>
            /\ books' = [x \in DOMAIN books \ {b} |-> books[x]]
            /\ instances' = {r \in instances : r.book # b}
                 \cup {[r EXCEPT !.book = NULL] : r \in {x \in instances : x.book = b}}
            /\ authors' = authors
            /\ genres' = genres]_vars

\* C9 witness: a Book orphaned by an Author delete beside a Book that kept
\* its Author, and BookInstances of both.
OrphanBesideUntouched ==
  \E b1, b2 \in DOMAIN books :
    /\ books[b1].author = NULL
    /\ books[b2].author \in DOMAIN authors
    /\ books[b1].title # books[b2].title
    /\ \E r1, r2 \in instances : r1.book = b1 /\ r2.book = b2

\* C10: every member of every Book's genre set is a Genre that exists; a
\* step that deletes Genre g deletes no Book and takes g, and nothing else,
\* out of every Book's genre set, so that display_genre reads only names of
\* Genres that exist.
GenreSetsExist ==
  /\ [](\A b \in DOMAIN books : books[b].genre \subseteq DOMAIN genres)
  /\ [][\A g \in DOMAIN genres :
          g \notin DOMAIN genres' =>
            /\ DOMAIN books' = DOMAIN books
            /\ \A b \in DOMAIN books : books'[b].genre = books[b].genre \ {g}]_vars

\* C10 witness: a Book whose genres were all deleted beside a Book that has
\* a genre left.
GenreSetEmptied ==
  \E b1, b2 \in DOMAIN books : books[b1].genre = {} /\ books[b2].genre # {}

=============================================================================
